---- MODULE Spec2Model ----
(***************************************************************************)
(* extract-partitions.py: the dump orchestration and resume engine.        *)
(*                                                                         *)
(* main() acquires the Device Channel, dump_partitions() walks the         *)
(* partition table in table order and, per partition, plans (size           *)
(* ceiling), reconciles (size of the existing output file) and executes    *)
(* (partitions.dump_partition).  The output directory and the device are   *)
(* the environment: the directory is a map from paths to file states, the  *)
(* device may fail any read, and the process may be killed at any point.   *)
(***************************************************************************)
EXTENDS Integers, Sequences, FiniteSets, TLC

VARIABLES
    table,      \* diskinfo.gpt.partitions: the ordered partition descriptors
    files,      \* the output directory: path -> file state
    pc,         \* where main() is
    max_size,   \* dump_partitions' max_size argument (bytes)
    idx,        \* position of the for loop in the table (1-based)
    events,     \* this run's reports, in order
    calls,      \* this run's calls of partitions.dump_partition
    reads,      \* this run's reads against the Device Channel
    files0,     \* the output directory as it was when this run started
    cur,        \* the dump_partition call in progress
    chan,       \* the Device Channel (comm)
    unfinished, \* paths whose last transfer was begun and did not complete
    rerun       \* this run follows a finished run with the same ceiling

vars == <<table, files, pc, max_size, idx, events, calls, reads, files0,
          cur, chan, unfinished, rerun>>

-----------------------------------------------------------------------------
(* Bounds *)

\* longest partition table
MaxParts == 2

-----------------------------------------------------------------------------
(* Constants of the program and of its collaborators *)

\* partitions.BLOCK_SIZE
BLOCK_SIZE == 512

\* bytes moved by one read of the executor's block-read loop
ChunkSize == 51200

\* --max-size values tried (KiB, type=int); 0 means no ceiling
Ceilings == {-1, 0, 1, 49, 50}

\* the slots of the device's partition table the runs choose from, in
\* device order; the last two are inconsistent (last_lba < first_lba)
Disk ==
    << [index |-> 1, name |-> "boot",     first_lba |-> 0,   last_lba |-> 0],
       [index |-> 2, name |-> "recovery", first_lba |-> 100, last_lba |-> 199],
       [index |-> 3, name |-> "system",   first_lba |-> 200, last_lba |-> 399],
       [index |-> 4, name |-> "misc",     first_lba |-> 1,   last_lba |-> 0],
       [index |-> 5, name |-> "laf",      first_lba |-> 100, last_lba |-> 0] >>

\* the order-preserving selections of at most MaxParts slots of Disk
RECURSIVE SubSeqs(_, _)
SubSeqs(s, n) ==
    IF n = 0 \/ s = <<>> THEN {<<>>}
    ELSE SubSeqs(Tail(s), n)
         \cup {<<Head(s)>> \o t : t \in SubSeqs(Tail(s), n - 1)}

Tables == SubSeqs(Disk, MaxParts) \ {<<>>}

-----------------------------------------------------------------------------
(* The filesystem *)

Absent == [kind |-> "absent", size |-> 0]
StatError == [kind |-> "error", size |-> 0]
Present(n) == [kind |-> "present", size |-> n]

\* os.path.join(outdir, "%s.bin" % part_name), relative to outdir
OutPath(part_name) == part_name \o ".bin"

Paths == {OutPath(Disk[k].name) : k \in 1..Len(Disk)}

\* os.path.getsize: the size, or OSError (ENOENT for a missing file, another
\* errno for a file that cannot be probed)
getsize(dir, path) ==
    CASE dir[path].kind = "present" -> [raised |-> "none", size |-> dir[path].size]
      [] dir[path].kind = "absent"  -> [raised |-> "ENOENT", size |-> 0]
      [] OTHER                      -> [raised |-> "EACCES", size |-> 0]

-----------------------------------------------------------------------------
(* dump_partitions, per partition *)

part_offset(part) == part.first_lba * BLOCK_SIZE

\* part_size with the inclusive bound forgotten
part_size_exclusive(part) == (part.last_lba - part.first_lba) * BLOCK_SIZE

part_size(part) == ((part.last_lba + 1) - part.first_lba) * BLOCK_SIZE

\* SkipBySize with the boundary taken as too large
SkipBySize_ge(size, ceiling) == ceiling # 0 /\ size >= ceiling

\* SkipBySize with the ceiling converted to bytes a second time
SkipBySize_twice(size, ceiling) == ceiling # 0 /\ size > ceiling * 1024

\* line 43: "if max_size and part_size > max_size"
SkipBySize(size, ceiling) == ceiling # 0 /\ size > ceiling

\* Reconcile taking any non-empty file for a finished one
Reconcile_nonempty(size, probe) ==
    IF probe.raised = "none"
    THEN IF probe.size > size THEN "abort_oversized"
         ELSE IF probe.size = size \/ probe.size > 0 THEN "skip_complete"
         ELSE "dumping"
    ELSE "dumping"

\* Reconcile without the branch for a file of the expected size
Reconcile_noskip(size, probe) ==
    IF probe.raised = "none"
    THEN IF probe.size > size THEN "abort_oversized"
         ELSE "dumping"
    ELSE "dumping"

\* Reconcile taking every file that is not too large for a finished one
Reconcile_le(size, probe) ==
    IF probe.raised = "none"
    THEN IF probe.size > size THEN "abort_oversized"
         ELSE "skip_complete"
    ELSE "dumping"

\* Reconcile without the branch for a file larger than expected
Reconcile_nowarn(size, probe) ==
    IF probe.raised = "none"
    THEN IF probe.size = size THEN "skip_complete"
         ELSE "dumping"
    ELSE "dumping"

\* lines 51-67: the try block; any OSError falls through to the dump
Reconcile(size, probe) ==
    IF probe.raised = "none"
    THEN IF probe.size > size THEN "abort_oversized"
         ELSE IF probe.size = size THEN "skip_complete"
         ELSE "dumping"
    ELSE "dumping"

\* the report of one loop iteration
Decide(part, ceiling, dir) ==
    IF SkipBySize(part_size(part), ceiling) THEN "skipped_large"
    ELSE Reconcile(part_size(part), getsize(dir, OutPath(part.name)))

NoDump == [path |-> "", offset |-> 0, size |-> 0, written |-> 0]

-----------------------------------------------------------------------------
(* Initial state: a table, and an output directory left by earlier use *)

InitFiles(part) ==
    {Absent, StatError, Present(BLOCK_SIZE), Present(60000)}
    \cup (IF part_size(part) >= 0 THEN {Present(part_size(part))} ELSE {})

TablePaths(t) == {OutPath(t[k].name) : k \in 1..Len(t)}

Init ==
    /\ table \in Tables
    /\ files \in [Paths -> {Absent, StatError} \cup {Present(n) : n \in {BLOCK_SIZE, 60000}
                              \cup {n \in {part_size(Disk[k]) : k \in 1..Len(Disk)} : n >= 0}}]
    /\ \A k \in 1..Len(table) : files[OutPath(table[k].name)] \in InitFiles(table[k])
    /\ \A p \in Paths \ TablePaths(table) : files[p] = Absent
    /\ pc = "idle"
    /\ max_size = 0
    /\ idx = 1
    /\ events = <<>>
    /\ calls = <<>>
    /\ reads = <<>>
    /\ files0 = files
    /\ cur = NoDump
    /\ chan = "none"
    /\ unfinished = {}
    /\ rerun = FALSE

-----------------------------------------------------------------------------
(* main *)

\* line 95: args.max_size * 1024
CeilingBytes(kbytes) == kbytes * 1024

\* lines 78-85: parse the arguments, make the output directory, open the
\* Device Channel
StartRun(kbytes) ==
    /\ pc \in {"idle", "done", "error", "killed"}
    /\ pc' = "setup"
    /\ max_size' = CeilingBytes(kbytes)
    /\ rerun' = (pc = "done" /\ max_size = CeilingBytes(kbytes))
    /\ chan' = "open"
    /\ idx' = 1
    /\ events' = <<>>
    /\ calls' = <<>>
    /\ reads' = <<>>
    /\ files0' = files
    /\ cur' = NoDump
    /\ UNCHANGED <<table, files, unfinished>>

\* lines 86-95 and 37: protocol, partition table and disk are opened
Setup ==
    /\ pc = "setup"
    /\ pc' = "loop"
    /\ UNCHANGED <<table, files, max_size, idx, events, calls, reads, files0,
                   cur, chan, unfinished, rerun>>

\* any of them raises: closing(comm) closes the channel on the way out
SetupFail ==
    /\ pc = "setup"
    /\ pc' = "error"
    /\ chan' = "closed"
    /\ UNCHANGED <<table, files, max_size, idx, events, calls, reads, files0,
                   cur, unfinished, rerun>>

\* Iterate with the "Dumping partition" report left until after the dump
Iterate_late ==
    /\ pc = "loop"
    /\ idx <= Len(table)
    /\ LET part == table[idx]
           out_path == OutPath(part.name)
           probe == getsize(files, out_path)
           decision == Decide(part, max_size, files)
       IN IF decision = "dumping"
          THEN /\ pc' = "call"
               /\ cur' = [path |-> out_path, offset |-> part_offset(part),
                          size |-> part_size(part), written |-> 0]
               /\ calls' = Append(calls,
                      [part |-> idx, path |-> out_path,
                       offset |-> part_offset(part), size |-> part_size(part)])
               /\ UNCHANGED <<idx, events>>
          ELSE /\ pc' = "loop"
               /\ idx' = idx + 1
               /\ events' = Append(events,
                      [part |-> idx, ev |-> decision,
                       probe |-> IF decision = "skipped_large" THEN "unprobed"
                                 ELSE probe.raised])
               /\ UNCHANGED <<cur, calls>>
    /\ UNCHANGED <<table, files, max_size, reads, files0, chan, unfinished, rerun>>

\* Iterate with "continue" leaving the loop on the same partition
Iterate_again ==
    /\ pc = "loop"
    /\ idx <= Len(table)
    /\ LET part == table[idx]
           out_path == OutPath(part.name)
           probe == getsize(files, out_path)
           decision == Decide(part, max_size, files)
       IN /\ events' = Append(events,
                 [part |-> idx, ev |-> decision,
                  probe |-> IF decision = "skipped_large" THEN "unprobed"
                            ELSE probe.raised])
          /\ IF decision = "dumping"
             THEN /\ pc' = "call"
                  /\ cur' = [path |-> out_path, offset |-> part_offset(part),
                             size |-> part_size(part), written |-> 0]
                  /\ calls' = Append(calls,
                         [part |-> idx, path |-> out_path,
                          offset |-> part_offset(part), size |-> part_size(part)])
                  /\ idx' = idx
             ELSE /\ pc' = "loop"
                  /\ idx' = IF Len(events) < idx THEN idx ELSE idx + 1
                  /\ UNCHANGED <<cur, calls>>
    /\ UNCHANGED <<table, files, max_size, reads, files0, chan, unfinished, rerun>>

\* lines 38-75: one iteration of the loop, up to the call of dump_partition
Iterate ==
    /\ pc = "loop"
    /\ idx <= Len(table)
    /\ LET part == table[idx]
           out_path == OutPath(part.name)
           probe == getsize(files, out_path)
           decision == Decide(part, max_size, files)
       IN /\ events' = Append(events,
                 [part |-> idx, ev |-> decision,
                  probe |-> IF decision = "skipped_large" THEN "unprobed"
                            ELSE probe.raised])
          /\ IF decision = "dumping"
             THEN /\ pc' = "call"
                  /\ cur' = [path |-> out_path, offset |-> part_offset(part),
                             size |-> part_size(part), written |-> 0]
                  /\ calls' = Append(calls,
                         [part |-> idx, path |-> out_path,
                          offset |-> part_offset(part), size |-> part_size(part)])
                  /\ idx' = idx
             ELSE /\ pc' = "loop"
                  /\ idx' = idx + 1
                  /\ UNCHANGED <<cur, calls>>
    /\ UNCHANGED <<table, files, max_size, reads, files0, chan, unfinished, rerun>>

\* Finish with the loop left one partition early
Finish_early ==
    /\ pc = "loop"
    /\ idx >= Len(table)
    /\ pc' = "done"
    /\ chan' = "closed"
    /\ events' = Append(events, [part |-> 0, ev |-> "all_finished", probe |-> "unprobed"])
    /\ UNCHANGED <<table, files, max_size, idx, calls, reads, files0, cur,
                   unfinished, rerun>>

\* lines 95-100: the table is exhausted, the channel is closed and the
\* completion is reported
Finish ==
    /\ pc = "loop"
    /\ idx > Len(table)
    /\ pc' = "done"
    /\ chan' = "closed"
    /\ events' = Append(events, [part |-> 0, ev |-> "all_finished", probe |-> "unprobed"])
    /\ UNCHANGED <<table, files, max_size, idx, calls, reads, files0, cur,
                   unfinished, rerun>>

-----------------------------------------------------------------------------
(* partitions.dump_partition: the Dump Executor *)

\* the destination is created or truncated
DumpOpen ==
    /\ pc = "call"
    /\ pc' = "xfer"
    /\ files' = [files EXCEPT ![cur.path] = Present(0)]
    /\ unfinished' = IF cur.size > 0 THEN unfinished \cup {cur.path}
                     ELSE unfinished \ {cur.path}
    /\ UNCHANGED <<table, max_size, idx, events, calls, reads, files0, cur,
                   chan, rerun>>

\* the destination cannot be opened for writing: dump_partition raises
DumpOpenFail ==
    /\ pc = "call"
    /\ pc' = "raised"
    /\ UNCHANGED <<table, files, max_size, idx, events, calls, reads, files0,
                   cur, chan, unfinished, rerun>>

\* one block read, written to the destination
DumpChunk ==
    /\ pc = "xfer"
    /\ cur.written < cur.size
    /\ LET n == IF cur.size - cur.written < ChunkSize
                THEN cur.size - cur.written ELSE ChunkSize
       IN /\ reads' = Append(reads, [part |-> idx, offset |-> cur.offset + cur.written,
                                     size |-> n])
          /\ files' = [files EXCEPT ![cur.path] = Present(files[cur.path].size + n)]
          /\ cur' = [cur EXCEPT !.written = cur.written + n]
          /\ unfinished' = IF cur.written + n >= cur.size
                           THEN unfinished \ {cur.path} ELSE unfinished
    /\ UNCHANGED <<table, pc, max_size, idx, events, calls, files0, chan, rerun>>

\* a block read fails (transport error): nothing is written,
\* dump_partition raises
DumpChunkFail ==
    /\ pc = "xfer"
    /\ cur.written < cur.size
    /\ pc' = "raised"
    /\ reads' = Append(reads, [part |-> idx, offset |-> cur.offset + cur.written,
                               size |-> 0])
    /\ UNCHANGED <<table, files, max_size, idx, events, calls, files0, cur,
                   chan, unfinished, rerun>>

\* the range is exhausted: the file is closed, the loop goes on
DumpReturn ==
    /\ pc = "xfer"
    /\ cur.written >= cur.size
    /\ pc' = "loop"
    /\ idx' = idx + 1
    /\ cur' = NoDump
    /\ UNCHANGED <<table, files, max_size, events, calls, reads, files0, chan,
                   unfinished, rerun>>

\* Propagate with the error swallowed and the loop going on
Propagate_continue ==
    /\ pc = "raised"
    /\ pc' = "loop"
    /\ idx' = idx + 1
    /\ cur' = NoDump
    /\ UNCHANGED <<table, files, max_size, events, calls, reads, files0, chan,
                   unfinished, rerun>>

\* Propagate with the failed dump tried again
Propagate_retry ==
    /\ pc = "raised"
    /\ pc' = "loop"
    /\ cur' = NoDump
    /\ UNCHANGED <<table, files, max_size, idx, events, calls, reads, files0,
                   chan, unfinished, rerun>>

\* Propagate with the channel left open
Propagate_leak ==
    /\ pc = "raised"
    /\ pc' = "error"
    /\ UNCHANGED <<table, files, max_size, idx, events, calls, reads, files0,
                   cur, chan, unfinished, rerun>>

\* line 75 has no handler: the exception of dump_partition leaves the loop
\* and dump_partitions, closing(comm) (line 86) closes the channel, main
\* ends without the completion report
Propagate ==
    /\ pc = "raised"
    /\ pc' = "error"
    /\ chan' = "closed"
    /\ UNCHANGED <<table, files, max_size, idx, events, calls, reads, files0,
                   cur, unfinished, rerun>>

\* the process is killed, or the device is unplugged under it
Kill ==
    /\ pc \in {"setup", "loop", "call", "xfer", "raised"}
    /\ pc' = "killed"
    /\ UNCHANGED <<table, files, max_size, idx, events, calls, reads, files0,
                   cur, chan, unfinished, rerun>>

Next ==
    \/ \E kbytes \in Ceilings : StartRun(kbytes)
    \/ Setup
    \/ SetupFail
    \/ Iterate
    \/ Finish
    \/ DumpOpen
    \/ DumpOpenFail
    \/ DumpChunk
    \/ DumpChunkFail
    \/ DumpReturn
    \/ Propagate
    \/ Kill

Spec == Init /\ [][Next]_vars

-----------------------------------------------------------------------------
(* Retrying until the dump is done: the tool is run again after every run  *)
(* that ended with a hard error, with the same table and ceiling, and is   *)
(* left alone once a run has reported "all finished".                      *)

\* the first run, with any ceiling
FirstRun ==
    /\ pc = "idle"
    /\ \E kbytes \in Ceilings : StartRun(kbytes)

\* the tool run again after a failed run, with the ceiling of that run
Retry ==
    /\ pc = "error"
    /\ \E kbytes \in Ceilings :
           /\ CeilingBytes(kbytes) = max_size
           /\ StartRun(kbytes)

LiveNext ==
    \/ FirstRun
    \/ Retry
    \/ Setup
    \/ SetupFail
    \/ Iterate
    \/ Finish
    \/ DumpOpen
    \/ DumpOpenFail
    \/ DumpChunk
    \/ DumpChunkFail
    \/ DumpReturn
    \/ Propagate

\* the positions in a partition at which a block read starts
ChunkStarts == {n * ChunkSize : n \in 0..1}

\* The program is sequential and never waits: each step it can take, it
\* takes.  The environment lets every retried operation succeed in the end:
\* the setup, the opening of each destination and each block read of each
\* partition.
Fairness ==
    /\ WF_vars(FirstRun)
    /\ WF_vars(Retry)
    /\ WF_vars(Iterate)
    /\ WF_vars(Finish)
    /\ WF_vars(DumpReturn)
    /\ WF_vars(Propagate)
    /\ SF_vars(Setup)
    /\ \A k \in 1..MaxParts : SF_vars(DumpOpen /\ idx = k)
    /\ \A k \in 1..MaxParts : \A w \in ChunkStarts :
           SF_vars(DumpChunk /\ idx = k /\ cur.written = w)

\* the retries start from a consistent table and an output directory with
\* no file larger than its partition
LiveInit ==
    /\ Init
    /\ \A k \in 1..Len(table) :
           /\ table[k].last_lba >= table[k].first_lba
           /\ files[OutPath(table[k].name)].size <= part_size(table[k])

LiveSpec == LiveInit /\ [][LiveNext]_vars /\ Fairness

-----------------------------------------------------------------------------
(* What the properties read from a state *)

Parts == 1..Len(table)

\* the byte range and the destination of partition i, from its descriptor
Bytes(i) == ((table[i].last_lba + 1) - table[i].first_lba) * BLOCK_SIZE
Offset(i) == table[i].first_lba * BLOCK_SIZE
PathOf(i) == table[i].name \o ".bin"

EventsOf(i) == SelectSeq(events, LAMBDA e : e.part = i)
CallsOf(i) == SelectSeq(calls, LAMBDA c : c.part = i)
ReadsOf(i) == SelectSeq(reads, LAMBDA r : r.part = i)

\* partition i has been reported in this run
Reported(i) == Len(EventsOf(i)) > 0

\* partition i is over the ceiling of this run
OverCeiling(i) == max_size # 0 /\ Bytes(i) > max_size

\* the output file of partition i when this run started
Before(i) == files0[PathOf(i)]

\* bytes of partition i present when this run started (a missing file: 0)
SizeBefore(i) == Before(i).size

-----------------------------------------------------------------------------
(* C1: a partition within the ceiling whose output file is missing or      *)
(* shorter than byte_length when it is reconciled gets exactly one dump,   *)
(* of the full range (byte_offset, byte_length), and the dump writes the   *)
(* file from offset 0: the file holds what this dump wrote, not the s      *)
(* bytes found plus more.                                                  *)
C1_ResumeFullRange ==
    \A i \in Parts :
        (/\ Reported(i)
         /\ ~OverCeiling(i)
         /\ Before(i).kind \in {"absent", "present"}
         /\ SizeBefore(i) < Bytes(i))
        => /\ Len(EventsOf(i)) = 1
           /\ EventsOf(i)[1].ev = "dumping"
           /\ Len(CallsOf(i)) = 1
           /\ CallsOf(i)[1].offset = Offset(i)
           /\ CallsOf(i)[1].size = Bytes(i)
           /\ CallsOf(i)[1].path = PathOf(i)
           /\ (idx = i /\ pc = "xfer") => files[PathOf(i)] = Present(cur.written)
           /\ idx > i => files[PathOf(i)] = Present(Bytes(i))

\* a file of one block was found for a larger partition, and the run has
\* rewritten it in full
C1_Witness ==
    \E i \in Parts :
        /\ Before(i) = Present(BLOCK_SIZE)
        /\ Bytes(i) > BLOCK_SIZE
        /\ idx > i
        /\ Len(CallsOf(i)) = 1
        /\ files[PathOf(i)] = Present(Bytes(i))

(* C2: a run that follows a finished run with the same table, ceiling and  *)
(* output directory issues no read, calls no dump and changes no file:     *)
(* every partition is skipped_large, skip_complete or abort_oversized.     *)
C2_Idempotent ==
    rerun =>
        /\ reads = <<>>
        /\ calls = <<>>
        /\ files = files0
        /\ \A k \in 1..Len(events) :
               events[k].ev \in {"skipped_large", "skip_complete",
                                 "abort_oversized", "all_finished"}

\* the second run has gone through the whole table and found a complete file
C2_Witness ==
    /\ rerun
    /\ pc = "done"
    /\ Len(events) = Len(table) + 1
    /\ \E k \in 1..Len(events) : events[k].ev = "skip_complete"

C4_CompleteNoRead ==
    \A i \in Parts :
        (Before(i) = Present(Bytes(i)) /\ ~OverCeiling(i))
        => /\ CallsOf(i) = <<>>
           /\ ReadsOf(i) = <<>>
           /\ files[PathOf(i)] = Before(i)
           /\ Reported(i) => EventsOf(i) = <<[part |-> i, ev |-> "skip_complete",
                                               probe |-> "none"]>>

\* a complete file was found, the partition was skipped and the loop went on
C4_Witness ==
    \E i \in Parts :
        /\ Before(i) = Present(Bytes(i))
        /\ Bytes(i) > 0
        /\ Reported(i)
        /\ EventsOf(i)[1].ev = "skip_complete"
        /\ idx > i

(* C5, as claimed: every partition whose output file is larger than        *)
(* byte_length keeps its file unchanged, gets an abort_oversized report    *)
(* and is followed by the next partition.                                  *)
C5_AsClaimed ==
    \A i \in Parts :
        (Reported(i) /\ Before(i).kind = "present" /\ SizeBefore(i) > Bytes(i))
        => /\ files[PathOf(i)] = Before(i)
           /\ CallsOf(i) = <<>>
           /\ ReadsOf(i) = <<>>
           /\ EventsOf(i) = <<[part |-> i, ev |-> "abort_oversized", probe |-> "none"]>>
           /\ idx > i

(* C5, amended: every partition whose output file is larger than           *)
(* byte_length keeps its file unchanged (no dump, no read); if it is not   *)
(* excluded by the size ceiling it gets an abort_oversized report, and the *)
(* loop goes on to the next partition.                                     *)
C5_OversizedUntouched ==
    \A i \in Parts :
        (Before(i).kind = "present" /\ SizeBefore(i) > Bytes(i))
        => /\ files[PathOf(i)] = Before(i)
           /\ CallsOf(i) = <<>>
           /\ ReadsOf(i) = <<>>
           /\ (Reported(i) /\ ~OverCeiling(i))
                  => /\ EventsOf(i) = <<[part |-> i, ev |-> "abort_oversized",
                                          probe |-> "none"]>>
                     /\ idx > i

\* a 60000-byte file was found for a 51200-byte partition, it was reported
\* and the next partition of the table was reported after it
C5_Witness ==
    \E i \in Parts :
        /\ Before(i) = Present(60000)
        /\ Bytes(i) = 51200
        /\ Reported(i)
        /\ EventsOf(i)[1].ev = "abort_oversized"
        /\ files[PathOf(i)] = Present(60000)
        /\ i < Len(table)
        /\ Reported(i + 1)

(* C6: a partition with byte_length > max_size, the ceiling not being 0,   *)
(* has no output file created or modified and no dump or read issued,      *)
(* whatever the state its output file was in.                              *)
C6_OverCeilingUntouched ==
    \A i \in Parts :
        (max_size # 0 /\ Bytes(i) > max_size)
        => /\ files[PathOf(i)] = Before(i)
           /\ CallsOf(i) = <<>>
           /\ ReadsOf(i) = <<>>
           /\ \A k \in 1..Len(EventsOf(i)) : EventsOf(i)[k].ev = "skipped_large"

\* a partition over the ceiling with a partial file was passed over
C6_Witness ==
    \E i \in Parts :
        /\ max_size # 0
        /\ Bytes(i) > max_size
        /\ Before(i) = Present(BLOCK_SIZE)
        /\ files[PathOf(i)] = Present(BLOCK_SIZE)
        /\ Reported(i)
        /\ idx > i

(* C7: a partition is skipped by size exactly when max_size is not 0 and   *)
(* byte_length > max_size, max_size being the KiB argument times 1024: no  *)
(* skip with max_size = 0, no skip at byte_length = max_size; a            *)
(* 51200-byte partition is not skipped under 50 KiB and is skipped under   *)
(* 49 KiB.                                                                 *)
C7_SkipIffOverCeiling ==
    /\ max_size \in {kbytes * 1024 : kbytes \in Ceilings}
    /\ \A i \in Parts :
           Reported(i)
           => /\ (EventsOf(i)[1].ev = "skipped_large")
                      <=> (max_size # 0 /\ Bytes(i) > max_size)
              /\ max_size = 0 => EventsOf(i)[1].ev # "skipped_large"
              /\ Bytes(i) = max_size => EventsOf(i)[1].ev # "skipped_large"
              /\ (Bytes(i) = 51200 /\ max_size = 50 * 1024)
                     => EventsOf(i)[1].ev # "skipped_large"
              /\ (Bytes(i) = 51200 /\ max_size = 49 * 1024)
                     => EventsOf(i)[1].ev = "skipped_large"

\* under a 50 KiB ceiling the 51200-byte partition was dumped and the
\* 102400-byte partition after it was skipped
C7_Witness ==
    /\ max_size = 50 * 1024
    /\ \E i, j \in Parts :
           /\ Bytes(i) = 51200
           /\ Reported(i)
           /\ EventsOf(i)[1].ev = "dumping"
           /\ Bytes(j) = 102400
           /\ Reported(j)
           /\ EventsOf(j)[1].ev = "skipped_large"

(* C8, as claimed: when probing the size of the output file fails with an  *)
(* error other than "file does not exist", the partition is not treated as *)
(* having no bytes and no dump of it is started.                           *)
C8_ProbeErrorIsHard ==
    \A i \in Parts :
        \A k \in 1..Len(EventsOf(i)) :
            EventsOf(i)[k].probe = "EACCES"
            => /\ EventsOf(i)[k].ev # "dumping"
               /\ CallsOf(i) = <<>>

(* C9, as claimed: a descriptor with last_lba < first_lba stops the run;   *)
(* no dump, skip_complete or abort_oversized decision is made from its     *)
(* zero or negative byte_length.                                           *)
C9_InconsistentIsFatal ==
    \A i \in Parts :
        table[i].last_lba < table[i].first_lba
        => /\ CallsOf(i) = <<>>
           /\ \A k \in 1..Len(EventsOf(i)) :
                  EventsOf(i)[k].ev \notin {"dumping", "skip_complete", "abort_oversized"}

(* C10: every dump is called with offset = first_lba * BLOCK_SIZE, length  *)
(* = (last_lba + 1 - first_lba) * BLOCK_SIZE and destination <name>.bin    *)
(* in the output directory; first_lba = 100, last_lba = 199 give offset    *)
(* 51200 and length 51200 into recovery.bin.                               *)
C10_ReadRange ==
    \A k \in 1..Len(calls) :
        LET c == calls[k]
            part == table[c.part]
        IN /\ c.offset = part.first_lba * BLOCK_SIZE
           /\ c.size = (part.last_lba + 1 - part.first_lba) * BLOCK_SIZE
           /\ c.path = part.name \o ".bin"
           /\ (part.first_lba = 100 /\ part.last_lba = 199 /\ part.name = "recovery")
                  => (c.offset = 51200 /\ c.size = 51200 /\ c.path = "recovery.bin")
           /\ (pc \in {"call", "xfer"} /\ k = Len(calls))
                  => (cur.offset = c.offset /\ cur.size = c.size /\ cur.path = c.path)

\* recovery.bin was missing and has been dumped from (51200, 51200)
C10_Witness ==
    \E k \in 1..Len(calls) :
        /\ calls[k].path = "recovery.bin"
        /\ calls[k].offset = 51200
        /\ calls[k].size = 51200
        /\ files0["recovery.bin"] = Absent
        /\ files["recovery.bin"] = Present(51200)
        /\ idx > calls[k].part

(* C11, as claimed: when a run ends with "all finished", every partition   *)
(* that was neither skipped by the size ceiling nor found with an          *)
(* oversized file has its output file <name>.bin of exactly byte_length    *)
(* bytes.                                                                  *)
C11_FinishedMeansComplete ==
    pc = "done" =>
        \A i \in Parts :
            (/\ ~OverCeiling(i)
             /\ ~(Before(i).kind = "present" /\ SizeBefore(i) > Bytes(i)))
            => files[PathOf(i)] = Present(Bytes(i))

C13_OneDecisionInOrder ==
    /\ \A k \in 1..Len(events) :
           \/ /\ k <= Len(table)
              /\ events[k].part = k
              /\ events[k].ev \in {"skipped_large", "abort_oversized",
                                   "skip_complete", "dumping"}
           \/ /\ k = Len(table) + 1
              /\ events[k].ev = "all_finished"
    /\ \A k \in 1..Len(reads) :
           /\ reads[k].part \in Parts
           /\ reads[k].part <= idx
           /\ Reported(reads[k].part)
           /\ k > 1 => reads[k - 1].part <= reads[k].part
    /\ Len(calls) <= Len(events)
    /\ \A k \in 1..Len(calls) : k > 1 => calls[k - 1].part < calls[k].part
    /\ pc = "done" => \A i \in Parts : Len(EventsOf(i)) = 1

\* a run over two partitions has ended, the first dumped, the second
\* decided after it
C13_Witness ==
    /\ pc = "done"
    /\ Len(table) = 2
    /\ events[1].ev = "dumping"
    /\ ReadsOf(1) # <<>>
    /\ events[2].part = 2

(* C14: a run reports "all finished" at most once, exactly once when it    *)
(* succeeds, as the last report, after the decision and the dump of the    *)
(* last partition of the table.                                            *)
C14_AllFinishedLast ==
    /\ \A k \in 1..Len(events) :
           events[k].ev = "all_finished"
           => /\ k = Len(events)
              /\ pc = "done"
              /\ \A i \in Parts : Reported(i)
              /\ idx = Len(table) + 1
              /\ cur = NoDump
    /\ pc = "done" => /\ Len(events) > 0
                      /\ events[Len(events)].ev = "all_finished"
    /\ pc # "done" => \A k \in 1..Len(events) : events[k].ev # "all_finished"

\* a run that dumped the last partition of its table has reported the end
C14_Witness ==
    /\ pc = "done"
    /\ Len(events) = Len(table) + 1
    /\ events[Len(table)].ev = "dumping"
    /\ files[PathOf(Len(table))] = Present(Bytes(Len(table)))
    /\ events[Len(events)].ev = "all_finished"

(* C15: once the Device Channel has been acquired it is closed on every    *)
(* way out of main: after the completion report and after a hard error of  *)
(* the setup or of a partition's dump the channel is closed; while main    *)
(* runs it is open.                                                        *)
C15_ChannelClosedOnExit ==
    /\ pc \in {"done", "error"} => chan = "closed"
    /\ pc \in {"setup", "loop", "call", "xfer", "raised"} => chan = "open"
    /\ pc = "idle" => chan = "none"

\* a transfer failed in the middle of a partition and main has ended
C15_Witness ==
    /\ pc = "error"
    /\ chan = "closed"
    /\ Len(reads) > 1
    /\ reads[Len(reads)].size = 0

\* the partitions whose output file is shorter than byte_length
PartialNow ==
    {i \in Parts : files[PathOf(i)].kind = "present"
                   /\ files[PathOf(i)].size < Bytes(i)}

\* no output file was shorter than byte_length when this run started
NoPartialBefore ==
    \A i \in Parts : ~(Before(i).kind = "present" /\ SizeBefore(i) < Bytes(i))

(* C16: in a run that started with no partial file, at most one output     *)
(* file is shorter than its byte_length at any time, also after a kill or  *)
(* a failed transfer; it is the file of the partition the loop is on, its  *)
(* transfer is unfinished, and the reconciler classifies it as incomplete. *)
C16_AtMostOnePartial ==
    NoPartialBefore =>
        /\ Cardinality(PartialNow) <= 1
        /\ \A i \in PartialNow :
               /\ i = idx
               /\ PathOf(i) \in unfinished
               /\ Reconcile(Bytes(i), getsize(files, PathOf(i))) = "dumping"

\* the first partition was dumped in full, the run ended in the middle of
\* the second
C16_Witness ==
    /\ NoPartialBefore
    /\ pc \in {"error", "killed"}
    /\ idx = 2
    /\ ReadsOf(1) # <<>>
    /\ files[PathOf(1)] = Present(Bytes(1))
    /\ PartialNow = {2}
    /\ files[PathOf(2)].size > 0

(* C17: a failed read is the last thing a run does to the device: after    *)
(* it, and after any hard error, no partition later in the table gets a    *)
(* report, a read or a file write in that run, and "all finished" is not   *)
(* reported.                                                               *)
C17_StopsAtFirstError ==
    /\ \A k \in 1..Len(reads) :
           reads[k].size = 0
           => /\ k = Len(reads)
              /\ pc \in {"raised", "error", "killed"}
              /\ idx = reads[k].part
    /\ (pc \in {"raised", "error"}
        \/ (Len(reads) > 0 /\ reads[Len(reads)].size = 0))
       => /\ \A k \in 1..Len(events) :
                 events[k].part <= idx /\ events[k].ev # "all_finished"
          /\ \A j \in Parts :
                 j > idx => /\ files[PathOf(j)] = Before(j)
                            /\ ReadsOf(j) = <<>>
                            /\ CallsOf(j) = <<>>
                            /\ ~Reported(j)

\* the transfer of the first of two partitions failed; main has ended and
\* the second partition was never looked at
C17_Witness ==
    /\ pc = "error"
    /\ Len(table) = 2
    /\ idx = 1
    /\ Len(reads) > 0
    /\ reads[Len(reads)].size = 0
    /\ Len(events) = 1
    /\ files[PathOf(2)] = Before(2)

(* C18: in one run each partition gets at most one dump and each output    *)
(* file is the destination of at most one dump; no byte of a partition is  *)
(* read twice, and nothing is read after a read has failed.                *)
C18_WriteOncePerRun ==
    /\ \A i \in Parts : Len(CallsOf(i)) <= 1
    /\ \A p \in Paths : Cardinality({k \in 1..Len(calls) : calls[k].path = p}) <= 1
    /\ \A k, l \in 1..Len(reads) :
           (k < l /\ reads[k].part = reads[l].part)
           => /\ reads[k].offset < reads[l].offset
              /\ reads[k].size > 0
    /\ \A i \in Parts :
           (files[PathOf(i)] # Before(i)) => Len(CallsOf(i)) = 1

\* two partitions were dumped in one run, one of them in two reads
C18_Witness ==
    /\ pc = "done"
    /\ Len(calls) = 2
    /\ calls[1].path # calls[2].path
    /\ Len(ReadsOf(2)) = 2
    /\ files[PathOf(1)] = Present(Bytes(1))
    /\ files[PathOf(2)] = Present(Bytes(2))

(* C19: once the output file of a partition has exactly byte_length bytes, *)
(* no step of any run, whatever its ceiling and however it ends, changes   *)
(* the file or reads the partition again.                                  *)
C19_CompleteStaysComplete ==
    [][\A i \in Parts :
           files[PathOf(i)] = Present(Bytes(i))
           => /\ files'[PathOf(i)] = files[PathOf(i)]
              /\ (reads' # reads /\ reads' # <<>>)
                     => reads'[Len(reads')].part # i
              /\ (calls' # calls /\ calls' # <<>>)
                     => calls'[Len(calls')].part # i]_vars

\* a run found a complete file, passed it over and failed on a later
\* partition
C19_Witness ==
    /\ pc = "error"
    /\ Len(table) = 2
    /\ idx = 2
    /\ Before(1) = Present(Bytes(1))
    /\ Bytes(1) > 0
    /\ files[PathOf(1)] = Present(Bytes(1))
    /\ reads # <<>>

\* every descriptor of the table has last_lba >= first_lba
ConsistentTable == \A i \in Parts : table[i].last_lba >= table[i].first_lba

\* no output file is larger than the byte_length of its partition
NoOversized ==
    \A i \in Parts : ~(files[PathOf(i)].kind = "present"
                       /\ files[PathOf(i)].size > Bytes(i))

\* a run has reported "all finished" and every partition within the ceiling
\* has its complete file
Converged ==
    /\ pc = "done"
    /\ events # <<>>
    /\ events[Len(events)].ev = "all_finished"
    /\ \A i \in Parts : ~OverCeiling(i) => files[PathOf(i)] = Present(Bytes(i))

(* C20: with a consistent table, no oversized output file and a fixed      *)
(* ceiling, running the tool again after each failed run leads to a run    *)
(* that reports "all finished" with every partition within the ceiling     *)
(* complete, when every retried transfer succeeds in the end; and no run   *)
(* makes a file that was complete when it started incomplete.              *)
C20_RetriesConverge ==
    /\ (ConsistentTable /\ NoOversized) => <>Converged
    /\ [](\A i \in Parts :
              Before(i) = Present(Bytes(i)) => files[PathOf(i)] = Before(i))

\* the last run found the first half of a two-read partition, left by a
\* failed run, and has completed it
C20_Witness ==
    /\ Converged
    /\ ConsistentTable
    /\ \E i \in Parts :
           /\ Bytes(i) = 2 * ChunkSize
           /\ Before(i) = Present(ChunkSize)
           /\ files[PathOf(i)] = Present(Bytes(i))

====
